---- MODULE Spec2Model ----
(***************************************************************************)
(* Flash-sale coordination service (awtifalak/flash).                      *)
(*                                                                         *)
(* The model covers the Redis reservation store (redisrepo.go), the        *)
(* Postgres sales store (dbrepo.go), the coordinator and the hourly        *)
(* finalization loop (service package) and the two request handlers.       *)
(* Every Redis command and every Postgres transaction is one atomic step;  *)
(* a Go function that issues several of them is a sequence of steps that   *)
(* other request handlers and the scheduler may interleave with.           *)
(***************************************************************************)
EXTENDS Integers, FiniteSets, Sequences, TLC

\* ------------------------------------------------------------------ bounds

\* Request-handler goroutines that may be in flight at the same time.
Procs == {1, 2}
Users == {"u1", "u2"}
Items == {"i1", "i2"}

\* Codes generateUniqueCode can hand out in one run (1..MaxCodes).
MaxCodes == 3
\* HTTP requests accepted in one run with concurrent handlers (Spec).
MaxRequests == 3
\* HTTP requests accepted in one run with one handler at a time (SpecSeq, SpecFin).
MaxSeqRequests == 4
\* Requests in SpecFlag.
MaxFlagRequests == 5
\* Requests in SpecStop.
MaxStopRequests == 2
\* Hour boundaries the wall clock crosses in one run.
MaxHour == 1
\* Longest user_id / item_id, in characters, the encoding is tried on (SpecCodec).
MaxIdLen == 2

\* The caps are literals in the source (10000, 10, 10); the model scales
\* them down so that the states at and beyond a cap are reached.
INVENTORY_CAP == 2
CONCURRENT_CAP == 2
TOTAL_CAP == 1
\* Watched-transaction attempts of CreateReservation (redisrepo.go:78).
MaxAttempts == 3

Codes == 1..MaxCodes
\* A code no checkout ever issued ("deadbeef").
NeverIssued == MaxCodes + 1
None == "none"

\* A store is a function on the keys (rows) that exist.
EmptyMap == [x \in {} |-> x]
Put(f, k, v) == [x \in DOMAIN f \cup {k} |-> IF x = k THEN v ELSE f[x]]
Drop(f, K) == [x \in DOMAIN f \ K |-> f[x]]

\* ------------------------------------------------------------ error texts

ErrItemAlreadySold == "item has already been sold"
ErrItemReserved == "item already reserved"
ErrSaleSoldOut == "sale completed, items sold out"
ErrPurchaseLimitExceeded == "purchase limit of 10 items exceeded for this user"
ErrConcurrentReservationExceeded == "concurrent reservation limit exceeded for this user"
ErrConflict == "item reservation failed after retries"
ErrReservationNotFound == "Reservation not found or expired"
ErrInvalidFormat == "invalid reservation data format"
ErrCtx == "context canceled"
ErrSaveCheckout == "failed to save checkout attempt"
ErrDeleteReservation == "failed to delete reservation"
ErrPurchaseDb == "failed to process purchase in db"
Ok == "ok"

\* ------------------------------------------------------------------- state

VARIABLES
    \* Redis
    itemRes,        \* item_reservation:{item} -> code
    reservation,    \* reservation:{code} -> "{user}|{item}", a string of characters
    globalSet,      \* reservations:global (members; the scores are never read)
    userSet,        \* reservations:user:{user} (members)
    itemSold,       \* items with an item_sold:{item} key
    userPurchases,  \* user_purchases:{user}
    \* Postgres
    attempts,       \* checkout_attempts, by code: [user, item, used]
    sales,          \* sales rows: [id, user, item, status, purchased_at]
    \* service.Status
    status,
    \* wall clock, in whole hours
    hour,
    \* request handlers
    pc, arg, attempt, dirty, cancelled, txHour, result,
    \* RunHourlyFinalization
    spc, nextHour, finWin, finCount, resetIdx, scanned,
    shutdown,       \* main's ctx has been cancelled
    \* generateUniqueCode
    nextCode,
    \* bookkeeping for the properties (not program state)
    issued,         \* codes a successful checkout returned to its client
    salesInserted,  \* code -> sales rows committed by purchases of that code
    finalized,      \* windows whose FinalizeSales transaction committed
    soldOk,         \* items a purchase of which was answered with success
    nReq,           \* requests accepted so far, by kind
    \* one reservation record, written and read back with arbitrary
    \* identifiers (SpecCodec)
    rt

kvVars == <<itemRes, reservation, globalSet, userSet, itemSold, userPurchases>>
dbVars == <<attempts, sales>>
procVars == <<pc, arg, attempt, dirty, cancelled, txHour, result>>
schedVars == <<spc, nextHour, finWin, finCount, resetIdx, scanned, shutdown>>
ghostVars == <<issued, salesInserted, finalized, soldOk>>
progVars == <<kvVars, dbVars, status, hour, procVars, schedVars, nextCode, ghostVars, nReq>>
vars == <<progVars, rt>>

\* A handler's request: kind, user, item and code are the handler's locals;
\* afterSale is bookkeeping for the properties: whether the request arrived
\* after a purchase of its item was answered with success.
NoArg == [kind |-> None, user |-> None, item |-> None, code |-> NeverIssued,
          afterSale |-> FALSE]
\* The keys a pipeline of ResetAllReservations has queued for DEL: none yet.
NoScan == {}

NewStatus ==
    [successfulCheckouts |-> 0, failedCheckouts |-> 0,
     successfulPurchases |-> 0, failedPurchases |-> 0,
     scheduledGoods |-> 0, purchasedGoods |-> 0, saleCompleted |-> FALSE]

\* No record is being tried (Spec, SpecSeq, SpecFin).
RtOff == [pc |-> "off", user |-> <<>>, item |-> <<>>, present |-> FALSE, val |-> <<>>,
          out |-> [err |-> None, user |-> <<>>, item |-> <<>>]]

InitProgram ==
    /\ itemRes = EmptyMap
    /\ reservation = EmptyMap
    /\ globalSet = {}
    /\ userSet = [u \in Users |-> {}]
    /\ itemSold = {}
    /\ userPurchases = [u \in Users |-> 0]
    /\ attempts = EmptyMap
    /\ sales = {}
    /\ status = NewStatus
    /\ hour = 0
    /\ pc = [p \in Procs |-> "idle"]
    /\ arg = [p \in Procs |-> NoArg]
    /\ attempt = [p \in Procs |-> 0]
    /\ dirty = [p \in Procs |-> FALSE]
    /\ cancelled = [p \in Procs |-> FALSE]
    /\ txHour = [p \in Procs |-> 0]
    /\ result = [p \in Procs |-> None]
    /\ spc = "wait"
    /\ nextHour = 1
    /\ finWin = 0
    /\ finCount = 0
    /\ resetIdx = 0
    /\ scanned = NoScan
    /\ shutdown = FALSE
    /\ nextCode = 1
    /\ issued = {}
    /\ salesInserted = [c \in Codes |-> 0]
    /\ finalized = {}
    /\ soldOk = {}
    /\ nReq = [checkout |-> 0, purchase |-> 0]

Init == InitProgram /\ rt = RtOff

\* ------------------------------------------- the reservation record's value

\* The identifiers of the model, as the strings they are.
Spell(id) ==
    CASE id = "u1" -> <<"u", "1">>
      [] id = "u2" -> <<"u", "2">>
      [] id = "i1" -> <<"i", "1">>
      [] id = "i2" -> <<"i", "2">>

Unspell(s) == CHOOSE id \in Users \cup Items : Spell(id) = s

Sep == "|"

\* fmt.Sprintf("%s|%s", userID, itemID)
FormatReservation(userID, itemID) == userID \o <<Sep>> \o itemID

\* strings.Split(s, sep): the substrings between the separators, one more
\* than there are separators (so a string without any comes back whole).
RECURSIVE Split(_, _)
Split(s, sep) ==
    IF \A k \in 1..Len(s) : s[k] # sep
    THEN <<s>>
    ELSE LET k == CHOOSE n \in 1..Len(s) : s[n] = sep /\ \A j \in 1..(n - 1) : s[j] # sep
         IN  <<SubSeq(s, 1, k - 1)>> \o Split(SubSeq(s, k + 1, Len(s)), sep)

\* GetReservation on a value that was found: split at "|", two parts or an
\* error.
ParseReservation(val) ==
    LET parts == Split(val, Sep)
    IN  IF Len(parts) # 2
        THEN [err |-> ErrInvalidFormat, user |-> <<>>, item |-> <<>>]
        ELSE [err |-> Ok, user |-> parts[1], item |-> parts[2]]

\* ------------------------------------------------------------ Redis: WATCH

ItemKey(i) == <<"item_reservation", i>>
SoldKey(i) == <<"item_sold", i>>
PurchKey(u) == <<"user_purchases", u>>

\* The keys CreateReservation hands to client.Watch.
WatchedKeys(u, i) == {ItemKey(i), SoldKey(i), PurchKey(u)}

\* A write (or an expiry) of a watched key aborts the EXEC of every
\* transaction that is between its WATCH and its EXEC.
Touch(keys) ==
    [p \in Procs |->
        dirty[p] \/ (pc[p] = "cr_exec"
                     /\ WatchedKeys(arg[p].user, arg[p].item) \cap keys # {})]

\* The read checks of txf, in the order of the source.
CRCheck(u, i) ==
    IF i \in itemSold THEN ErrItemAlreadySold
    ELSE IF i \in DOMAIN itemRes THEN ErrItemReserved
    ELSE IF Cardinality(globalSet) >= INVENTORY_CAP THEN ErrSaleSoldOut
    ELSE IF userPurchases[u] >= TOTAL_CAP THEN ErrPurchaseLimitExceeded
    ELSE IF Cardinality(userSet[u]) >= CONCURRENT_CAP THEN ErrConcurrentReservationExceeded
    ELSE Ok

\* A handler leaves its function with an error or a value.
Finish(p, r) ==
    /\ pc' = [pc EXCEPT ![p] = "done"]
    /\ result' = [result EXCEPT ![p] = r]

Goto(p, l) ==
    /\ pc' = [pc EXCEPT ![p] = l]
    /\ UNCHANGED result

\* The handler's goroutine is over: its locals are gone.
Release(p) ==
    /\ pc' = [pc EXCEPT ![p] = "idle"]
    /\ arg' = [arg EXCEPT ![p] = NoArg]
    /\ attempt' = [attempt EXCEPT ![p] = 0]
    /\ cancelled' = [cancelled EXCEPT ![p] = FALSE]
    /\ txHour' = [txHour EXCEPT ![p] = 0]
    /\ result' = [result EXCEPT ![p] = None]

\* Mutant of Bump: the add is lost.
BumpLost(field) == status' = status

\* atomic.AddUint64(&s.field, 1)
Bump(field) == status' = [status EXCEPT ![field] = @ + 1]

\* Handler goroutines are interchangeable: a new request takes the first
\* free one.
FirstIdle(p) == pc[p] = "idle" /\ \A q \in Procs : pc[q] = "idle" => p <= q

\* The request's ctx (r.Context()) at a Redis or Postgres call: `done` says
\* whether it is done (client gone, server timeout) by then; once done it
\* stays done.  go-redis and pgx fail a call on a done ctx without running it.
Ctx(p, done) ==
    /\ cancelled[p] => done
    /\ cancelled' = [cancelled EXCEPT ![p] = done]

\* --------------------------------------------- checkout: CreateReservation

\* POST /checkout?user_id=u&id=i reaches FlashSaleService.CreateReservation:
\* the IsSaleCompleted load and generateUniqueCode.
StartCheckout(p, u, i) ==
    /\ FirstIdle(p)
    /\ nReq' = [nReq EXCEPT !.checkout = @ + 1]
    /\ IF status.saleCompleted
       THEN /\ Finish(p, ErrSaleSoldOut)
            /\ arg' = [arg EXCEPT ![p] = [kind |-> "checkout", user |-> u, item |-> i,
                                          code |-> NeverIssued,
                                          afterSale |-> i \in soldOk]]
            /\ UNCHANGED nextCode
       ELSE /\ nextCode <= MaxCodes
            /\ Goto(p, "cr_watch")
            /\ arg' = [arg EXCEPT ![p] = [kind |-> "checkout", user |-> u, item |-> i,
                                          code |-> nextCode,
                                          afterSale |-> i \in soldOk]]
            /\ nextCode' = nextCode + 1
    /\ UNCHANGED <<kvVars, dbVars, status, hour, rt, attempt, dirty, cancelled, txHour,
                   schedVars, ghostVars>>

\* client.Watch(ctx, txf, ...): WATCH, then txf's reads up to TxPipelined.
CRWatch(p, done) ==
    /\ pc[p] = "cr_watch"
    /\ Ctx(p, done)
    /\ LET r == CRCheck(arg[p].user, arg[p].item) IN
       IF done THEN Finish(p, ErrCtx)
       ELSE IF r # Ok THEN Finish(p, r)
       ELSE Goto(p, "cr_exec")
    /\ UNCHANGED <<kvVars, dbVars, status, hour, rt, arg, attempt, dirty, txHour,
                   schedVars, nextCode, ghostVars, nReq>>

\* Mutant of CRWrites: the two ZADDs are not part of the batch and are lost.
CRWritesPartial(u, i, c) ==
    /\ itemRes' = Put(itemRes, i, c)
    /\ reservation' = Put(reservation, c, FormatReservation(Spell(u), Spell(i)))
    /\ UNCHANGED <<globalSet, userSet, itemSold, userPurchases>>

\* The four queued writes of TxPipelined, applied by EXEC as one batch.
CRWrites(u, i, c) ==
    /\ itemRes' = Put(itemRes, i, c)
    /\ globalSet' = globalSet \cup {c}
    /\ userSet' = [userSet EXCEPT ![u] = @ \cup {c}]
    /\ reservation' = Put(reservation, c, FormatReservation(Spell(u), Spell(i)))
    /\ UNCHANGED <<itemSold, userPurchases>>

\* Mutant of RetryAgain: one attempt too many.
RetryAgainOffByOne(n) == n <= MaxAttempts

\* for i := 0; i < 3; i++: whether attempt number n (from 0) is made.
RetryAgain(n) == n < MaxAttempts

\* EXEC: aborted (TxFailedErr) when a watched key was touched since WATCH,
\* and then the loop of CreateReservation runs txf again, three times at most.
CRExec(p, done) ==
    /\ pc[p] = "cr_exec"
    /\ Ctx(p, done)
    /\ IF done
       THEN /\ Finish(p, ErrCtx)
            /\ dirty' = [dirty EXCEPT ![p] = FALSE]
            /\ UNCHANGED <<kvVars, attempt>>
       ELSE IF dirty[p]
       THEN /\ attempt' = [attempt EXCEPT ![p] = @ + 1]
            /\ dirty' = [dirty EXCEPT ![p] = FALSE]
            /\ IF RetryAgain(attempt[p] + 1)
               THEN Goto(p, "cr_watch")
               ELSE Finish(p, ErrConflict)
            /\ UNCHANGED kvVars
       ELSE /\ CRWrites(arg[p].user, arg[p].item, arg[p].code)
            /\ dirty' = [Touch({ItemKey(arg[p].item)}) EXCEPT ![p] = FALSE]
            /\ Goto(p, "co_save")
            /\ UNCHANGED attempt
    /\ UNCHANGED <<dbVars, status, hour, rt, arg, txHour,
                   schedVars, nextCode, ghostVars, nReq>>

\* ------------------------------------------ Postgres: SaveCheckoutAttempt

\* INSERT INTO checkout_attempts: used defaults to FALSE; code is UNIQUE.
InsertAttempt(u, i, c) ==
    Put(attempts, c, [user |-> u, item |-> i, used |-> FALSE])

\* pgRepo.SaveCheckoutAttempt: the statement fails on a done context, on a
\* backend error (dbOk = FALSE) and on a duplicate code.
COSave(p, dbOk, done) ==
    /\ pc[p] = "co_save"
    /\ Ctx(p, done)
    /\ IF dbOk /\ ~done /\ arg[p].code \notin DOMAIN attempts
       THEN /\ attempts' = InsertAttempt(arg[p].user, arg[p].item, arg[p].code)
            /\ Goto(p, "co_inc1")
       ELSE /\ Goto(p, "co_del")
            /\ UNCHANGED attempts
    /\ UNCHANGED <<kvVars, sales, status, hour, rt, arg, attempt, dirty, txHour,
                   schedVars, nextCode, ghostVars, nReq>>

\* IncrementSuccessfulCheckouts, then IncrementScheduledGoods: two atomic adds.
COInc1(p) ==
    /\ pc[p] = "co_inc1"
    /\ Bump("successfulCheckouts")
    /\ Goto(p, "co_inc2")
    /\ UNCHANGED <<kvVars, dbVars, hour, rt, arg, attempt, dirty, cancelled, txHour,
                   schedVars, nextCode, ghostVars, nReq>>

COInc2(p) ==
    /\ pc[p] = "co_inc2"
    /\ Bump("scheduledGoods")
    /\ Finish(p, Ok)
    /\ UNCHANGED <<kvVars, dbVars, hour, rt, arg, attempt, dirty, cancelled, txHour,
                   schedVars, nextCode, ghostVars, nReq>>

\* ------------------------------------------------ Redis: DeleteReservation

\* DEL item_reservation:{item} reservation:{code}: the lock is removed by
\* the item's name, whatever code it holds.
DelItemLock(i, c) == Drop(itemRes, {i})

\* client.Del(ctx, keys...): the only command of DeleteReservation whose
\* error is returned. `here`, `next` are the caller's positions and `err`
\* what the caller returns when DeleteReservation fails.
DRDel(p, here, next, err, done) ==
    /\ pc[p] = here
    /\ Ctx(p, done)
    /\ IF done
       THEN /\ Finish(p, err)
            /\ UNCHANGED <<itemRes, reservation, dirty>>
       ELSE /\ itemRes' = DelItemLock(arg[p].item, arg[p].code)
            /\ reservation' = Drop(reservation, {arg[p].code})
            /\ dirty' = IF itemRes' # itemRes
                        THEN Touch({ItemKey(arg[p].item)}) ELSE dirty
            /\ Goto(p, next)
    /\ UNCHANGED <<globalSet, userSet, itemSold, userPurchases, dbVars, status, hour, rt,
                   arg, attempt, txHour, schedVars, nextCode, ghostVars, nReq>>

\* client.ZRem(ctx, globalKey, code): its error is dropped.
DRZRemGlobal(p, here, next, done) ==
    /\ pc[p] = here
    /\ Ctx(p, done)
    /\ globalSet' = IF done THEN globalSet ELSE globalSet \ {arg[p].code}
    /\ Goto(p, next)
    /\ UNCHANGED <<itemRes, reservation, userSet, itemSold, userPurchases, dbVars, status,
                   hour, rt, arg, attempt, dirty, txHour, schedVars, nextCode,
                   ghostVars, nReq>>

\* client.ZRem(ctx, userKey, code): its error is dropped; DeleteReservation
\* returns nil and the caller goes on (`next`) or returns (`ret`).
DRZRemUser(p, here, next, ret, done) ==
    /\ pc[p] = here
    /\ Ctx(p, done)
    /\ userSet' = IF done THEN userSet
                  ELSE [userSet EXCEPT ![arg[p].user] = @ \ {arg[p].code}]
    /\ IF next = "done" THEN Finish(p, ret) ELSE Goto(p, next)
    /\ UNCHANGED <<itemRes, reservation, globalSet, itemSold, userPurchases, dbVars,
                   status, hour, rt, arg, attempt, dirty, txHour, schedVars,
                   nextCode, ghostVars, nReq>>

\* CreateReservation's rollback after SaveCheckoutAttempt failed: it passes
\* the request's own ctx and drops the error.
COCompDel(p, done) == DRDel(p, "co_del", "co_zrem_g", ErrSaveCheckout, done)
COCompZRemGlobal(p, done) == DRZRemGlobal(p, "co_zrem_g", "co_zrem_u", done)
COCompZRemUser(p, done) == DRZRemUser(p, "co_zrem_u", "done", ErrSaveCheckout, done)

\* ------------------------------------------------- purchase: ProcessPurchase

\* POST /purchase?code=c reaches FlashSaleService.ProcessPurchase:
\* redisRepo.GetReservation.  Clients know the codes they were given.
StartPurchase(p, c) ==
    /\ FirstIdle(p)
    /\ nReq' = [nReq EXCEPT !.purchase = @ + 1]
    /\ IF c \notin DOMAIN reservation
       THEN /\ Finish(p, ErrReservationNotFound)
            /\ arg' = [arg EXCEPT ![p] = [NoArg EXCEPT !.kind = "purchase", !.code = c]]
       ELSE LET r == ParseReservation(reservation[c]) IN
            IF r.err # Ok
            THEN /\ Finish(p, r.err)
                 /\ arg' = [arg EXCEPT ![p] = [NoArg EXCEPT !.kind = "purchase", !.code = c]]
            ELSE /\ Goto(p, "pu_del")
                 /\ arg' = [arg EXCEPT ![p] =
                              [kind |-> "purchase", user |-> Unspell(r.user),
                               item |-> Unspell(r.item), code |-> c,
                               afterSale |-> FALSE]]
    /\ UNCHANGED <<kvVars, dbVars, status, hour, rt, attempt, dirty, cancelled, txHour,
                   schedVars, nextCode, ghostVars>>

PUDel(p, done) == DRDel(p, "pu_del", "pu_zrem_g", ErrDeleteReservation, done)
PUZRemGlobal(p, done) == DRZRemGlobal(p, "pu_zrem_g", "pu_zrem_u", done)
PUZRemUser(p, done) == DRZRemUser(p, "pu_zrem_u", "pu_begin", None, done)

\* pgRepo.ProcessPurchase, db.Begin: now() of the transaction is fixed here.
PUBegin(p, dbOk, done) ==
    /\ pc[p] = "pu_begin"
    /\ Ctx(p, done)
    /\ IF dbOk /\ ~done
       THEN /\ txHour' = [txHour EXCEPT ![p] = hour]
            /\ Goto(p, "pu_commit")
       ELSE /\ Finish(p, ErrPurchaseDb)
            /\ UNCHANGED txHour
    /\ UNCHANGED <<kvVars, dbVars, status, hour, rt, arg, attempt, dirty, schedVars, nextCode, ghostVars, nReq>>

\* sales.id is SERIAL.
NextSaleId ==
    LET RECURSIVE Sum(_)
        Sum(S) == IF S = {} THEN 0
                  ELSE LET c == CHOOSE x \in S : TRUE IN salesInserted[c] + Sum(S \ {c})
    IN 1 + Sum(Codes)

\* INSERT INTO sales (user_id, item_id, status) VALUES ($1, $2, 'pending'):
\* purchased_at defaults to now(), the start of the transaction.
InsertSale(u, i, at) ==
    sales \cup {[id |-> NextSaleId, user |-> u, item |-> i, status |-> "pending",
                 purchased_at |-> at]}

\* Mutant of MarkUsed: the UPDATE of checkout_attempts is left out.
MarkUsedForgotten(c) == attempts

\* UPDATE checkout_attempts SET used = true WHERE code = $1.
MarkUsed(c) ==
    IF c \in DOMAIN attempts THEN [attempts EXCEPT ![c].used = TRUE] ELSE attempts

\* Mutant of TxRollback: the INSERT was not part of the transaction and
\* stays.
TxRollbackKeepsInsert(p) ==
    /\ sales' = InsertSale(arg[p].user, arg[p].item, txHour[p])
    /\ salesInserted' = [salesInserted EXCEPT ![arg[p].code] = @ + 1]
    /\ UNCHANGED attempts

\* defer tx.Rollback(ctx): an error before Commit leaves no statement's effect.
TxRollback(p) == UNCHANGED <<sales, attempts, salesInserted>>

\* The two statements and tx.Commit: both take effect or, on any error
\* (deferred Rollback), neither.
PUCommit(p, dbOk, done) ==
    /\ pc[p] = "pu_commit"
    /\ Ctx(p, done)
    /\ IF dbOk /\ ~done
       THEN /\ sales' = InsertSale(arg[p].user, arg[p].item, txHour[p])
            /\ attempts' = MarkUsed(arg[p].code)
            /\ salesInserted' = [salesInserted EXCEPT ![arg[p].code] = @ + 1]
            /\ Goto(p, "pu_sold")
       ELSE /\ Finish(p, ErrPurchaseDb)
            /\ TxRollback(p)
    /\ UNCHANGED <<kvVars, status, hour, rt, arg, attempt, dirty, txHour,
                   schedVars, nextCode, issued, finalized, soldOk, nReq>>

\* Mutant of PUMarkSold: a failure of MarkItemAsSold is returned to the caller.
PUMarkSoldOrFail(p, done) ==
    /\ pc[p] = "pu_sold"
    /\ Ctx(p, done)
    /\ IF done
       THEN /\ Finish(p, ErrCtx)
            /\ UNCHANGED <<itemSold, dirty>>
       ELSE /\ itemSold' = itemSold \cup {arg[p].item}
            /\ dirty' = Touch({SoldKey(arg[p].item)})
            /\ Goto(p, "pu_incr")
    /\ UNCHANGED <<itemRes, reservation, globalSet, userSet, userPurchases, dbVars, status,
                   hour, rt, arg, attempt, txHour, schedVars, nextCode, ghostVars,
                   nReq>>

\* redisRepo.MarkItemAsSold: SET item_sold:{item} "sold"; a failure is logged.
PUMarkSold(p, done) ==
    /\ pc[p] = "pu_sold"
    /\ Ctx(p, done)
    /\ IF done
       THEN UNCHANGED <<itemSold, dirty>>
       ELSE /\ itemSold' = itemSold \cup {arg[p].item}
            /\ dirty' = Touch({SoldKey(arg[p].item)})
    /\ Goto(p, "pu_incr")
    /\ UNCHANGED <<itemRes, reservation, globalSet, userSet, userPurchases, dbVars, status,
                   hour, rt, arg, attempt, txHour, schedVars, nextCode, ghostVars,
                   nReq>>

\* redisRepo.IncrementUserPurchaseCount: INCR; a failure is logged.
PUIncrCount(p, done) ==
    /\ pc[p] = "pu_incr"
    /\ Ctx(p, done)
    /\ IF done
       THEN UNCHANGED <<userPurchases, dirty>>
       ELSE /\ userPurchases' = [userPurchases EXCEPT ![arg[p].user] = @ + 1]
            /\ dirty' = Touch({PurchKey(arg[p].user)})
    /\ Goto(p, "pu_inc1")
    /\ UNCHANGED <<itemRes, reservation, globalSet, userSet, itemSold, dbVars, status,
                   hour, rt, arg, attempt, txHour, schedVars, nextCode, ghostVars,
                   nReq>>

\* IncrementSuccessfulPurchases, then IncrementPurchasedGoods.
PUInc1(p) ==
    /\ pc[p] = "pu_inc1"
    /\ Bump("successfulPurchases")
    /\ Goto(p, "pu_inc2")
    /\ UNCHANGED <<kvVars, dbVars, hour, rt, arg, attempt, dirty, cancelled, txHour,
                   schedVars, nextCode, ghostVars, nReq>>

PUInc2(p) ==
    /\ pc[p] = "pu_inc2"
    /\ Bump("purchasedGoods")
    /\ Finish(p, Ok)
    /\ UNCHANGED <<kvVars, dbVars, hour, rt, arg, attempt, dirty, cancelled, txHour,
                   schedVars, nextCode, ghostVars, nReq>>

\* ------------------------------------------------------- the HTTP handlers

\* handleCheckout / handlePurchase after the service call returned: an error
\* bumps the failed counter, then the response is written.
Respond(p) ==
    /\ pc[p] = "done"
    /\ status' = IF result[p] = Ok THEN status
                 ELSE IF arg[p].kind = "checkout"
                 THEN [status EXCEPT !.failedCheckouts = @ + 1]
                 ELSE [status EXCEPT !.failedPurchases = @ + 1]
    /\ issued' = IF result[p] = Ok /\ arg[p].kind = "checkout"
                 THEN issued \cup {arg[p].code} ELSE issued
    /\ soldOk' = IF result[p] = Ok /\ arg[p].kind = "purchase"
                 THEN soldOk \cup {arg[p].item} ELSE soldOk
    /\ Release(p)
    /\ UNCHANGED <<kvVars, dbVars, hour, rt, dirty, schedVars, nextCode, salesInserted,
                   finalized, nReq>>

\* The messages the handler package compares err.Error() with (model.go).
HttpErrItemReserved == "item already reserved"
HttpErrPurchaseLimitExceeded == "purchase limit exceeded for this user"
HttpErrSaleSoldOut == "sale completed, items sold out"
HttpErrReservationNotFound == "Reservation not found or expired"
ErrInternalServer == "Internal server error"
\* handleCheckout names two more, which no file of the package declares;
\* they are taken to be the messages CreateReservation returns.
HttpErrItemAlreadySold == "item has already been sold"
HttpErrConcurrentReservationExceeded == "concurrent reservation limit exceeded for this user"

\* handleCheckout: the status and the body written for what
\* CreateReservation returned.
CheckoutResponse(err) ==
    IF err = Ok THEN [status |-> 200, body |-> "success"]
    ELSE IF err \in {HttpErrItemReserved, HttpErrSaleSoldOut, HttpErrItemAlreadySold,
                     HttpErrPurchaseLimitExceeded, HttpErrConcurrentReservationExceeded}
    THEN [status |-> 400, body |-> err]
    ELSE [status |-> 500, body |-> ErrInternalServer]

\* handlePurchase: the same for what ProcessPurchase returned.
PurchaseResponse(err) ==
    IF err = Ok THEN [status |-> 200, body |-> "success"]
    ELSE IF err = HttpErrReservationNotFound
    THEN [status |-> 400, body |-> err]
    ELSE [status |-> 500, body |-> ErrInternalServer]

HandlerResponse(kind, err) ==
    IF kind = "checkout" THEN CheckoutResponse(err) ELSE PurchaseResponse(err)

\* ------------------------------------------------------------ Redis: TTL

\* The item lock and the record of one EXEC carry the same TTL and expire
\* together; the sorted-set members carry no TTL and stay.
Expire(c) ==
    /\ c \in DOMAIN reservation \/ \E i \in DOMAIN itemRes : itemRes[i] = c
    /\ reservation' = Drop(reservation, {c})
    /\ itemRes' = Drop(itemRes, {i \in DOMAIN itemRes : itemRes[i] = c})
    /\ dirty' = Touch({ItemKey(i) : i \in {j \in DOMAIN itemRes : itemRes[j] = c}})
    /\ UNCHANGED <<globalSet, userSet, itemSold, userPurchases, dbVars, status, hour, rt,
                   pc, arg, attempt, cancelled, txHour, result, schedVars, nextCode,
                   ghostVars, nReq>>

\* ------------------------------------------------------------- wall clock

\* The wall clock crosses an hour boundary.
Tick ==
    /\ hour < MaxHour
    /\ hour' = hour + 1
    /\ UNCHANGED <<rt, kvVars, dbVars, status, procVars, schedVars, nextCode, ghostVars, nReq>>

\* --------------------------------------- Postgres: FinalizeSales

\* WHERE status = 'pending' AND purchased_at >= $1 AND purchased_at < $2,
\* with [$1, $2) the hour `w`.
PendingIn(w) == {r \in sales : r.status = "pending" /\ r.purchased_at = w}

\* Mutant of FinalizeConfirms: "at most the inventory" instead of "exactly".
FinalizeConfirmsAtMost(count) == count <= INVENTORY_CAP

\* if pendingCount == 10000
FinalizeConfirms(count) == count = INVENTORY_CAP

\* The UPDATE (confirm) or the DELETE of the rows the statement sees.
FinalizeApply(w, count) ==
    IF FinalizeConfirms(count)
    THEN (sales \ PendingIn(w)) \cup {[r EXCEPT !.status = "confirmed"] : r \in PendingIn(w)}
    ELSE sales \ PendingIn(w)

\* ------------------------------------------------- RunHourlyFinalization

\* Mutant of SchedCtxDone: the scheduler never sees the cancellation.
SchedCtxNeverDone == FALSE

\* ctx.Done() of the scheduler's ctx, which is main's: closed by cancel().
SchedCtxDone == shutdown

\* The loop goes round: nextHour := now.Truncate(Hour).Add(Hour).
AwaitBoundary ==
    /\ spc' = "wait"
    /\ nextHour' = hour + 1
    /\ finWin' = 0
    /\ finCount' = 0
    /\ resetIdx' = 0
    /\ scanned' = NoScan

\* time.After(waitDuration) fires: finalizeSales is called.
TimerFire ==
    /\ spc = "wait"
    /\ hour >= nextHour
    /\ spc' = "fin_count"
    /\ UNCHANGED <<kvVars, dbVars, status, hour, rt, shutdown, procVars, nextHour, finWin, finCount,
                   resetIdx, scanned, nextCode, ghostVars, nReq>>

\* FinalizeSales: Begin, time.Now() (the window is the hour before the
\* current one) and the SELECT COUNT(*).  An error returns through
\* finalizeSales to the loop, which logs it.
FSCount(here, next, dbOk) ==
    /\ spc = here
    /\ IF dbOk /\ ~SchedCtxDone
       THEN /\ spc' = next
            /\ finWin' = hour - 1
            /\ finCount' = Cardinality(PendingIn(hour - 1))
            /\ UNCHANGED <<nextHour, resetIdx, scanned>>
       ELSE AwaitBoundary
    /\ UNCHANGED <<kvVars, dbVars, status, hour, rt, shutdown, procVars, nextCode, ghostVars, nReq>>

\* FinalizeSales: the UPDATE or the DELETE, and Commit.  Under READ COMMITTED
\* the statement sees the rows committed up to now, not those the count saw.
FSApply(here, next, dbOk) ==
    /\ spc = here
    /\ IF dbOk /\ ~SchedCtxDone
       THEN /\ sales' = FinalizeApply(finWin, finCount)
            /\ finalized' = finalized \cup {finWin}
            /\ spc' = next
            /\ UNCHANGED <<nextHour, finWin, finCount, resetIdx, scanned>>
       ELSE /\ AwaitBoundary
            /\ UNCHANGED <<sales, finalized>>
    /\ UNCHANGED <<kvVars, attempts, status, hour, rt, shutdown, procVars, nextCode, issued,
                   salesInserted, soldOk, nReq>>

\* The scheduler's call of FinalizeSales, from finalizeSales.
FinCount(dbOk) == FSCount("fin_count", "fin_apply", dbOk)
FinApply(dbOk) == FSApply("fin_apply", "set_completed", dbOk)

\* FinalizeSales called once more within the hour, for the window a
\* committed call has already finalized (a second instance of the service
\* on the same database; the method takes no window and guards against
\* nothing).  Only the repository call is made.
FinalizeAgain ==
    /\ spc = "wait"
    /\ hour - 1 \in finalized
    /\ spc' = "refin_count"
    /\ UNCHANGED <<kvVars, dbVars, status, hour, rt, shutdown, procVars, nextHour, finWin, finCount,
                   resetIdx, scanned, nextCode, ghostVars, nReq>>

ReFinCount(dbOk) == FSCount("refin_count", "refin_apply", dbOk)
ReFinApply(dbOk) == FSApply("refin_apply", "refin_done", dbOk)

\* The second call has returned finCount to its caller.
ReFinReturn ==
    /\ spc = "refin_done"
    /\ AwaitBoundary
    /\ UNCHANGED <<kvVars, dbVars, status, hour, rt, shutdown, procVars, nextCode, ghostVars, nReq>>

\* finalizeSales: if pendingCount == 10000
SaleIsComplete(count) == count = INVENTORY_CAP

\* finalizeSales: SetSaleCompleted(true) or SetSaleCompleted(false).
SetSaleCompleted ==
    /\ spc = "set_completed"
    /\ status' = [status EXCEPT !.saleCompleted = SaleIsComplete(finCount)]
    /\ spc' = "status_reset"
    /\ resetIdx' = 1
    /\ UNCHANGED <<kvVars, dbVars, hour, rt, shutdown, procVars, nextHour, finWin, finCount, scanned,
                   nextCode, ghostVars, nReq>>

\* Mutant of ResetFields: Reset leaves saleCompleted as it is.
ResetFieldsKeepFlag ==
    <<"successfulCheckouts", "failedCheckouts", "successfulPurchases", "failedPurchases",
      "scheduledGoods", "purchasedGoods">>

\* Status.Reset: seven atomic stores, in this order.
ResetFields ==
    <<"successfulCheckouts", "failedCheckouts", "successfulPurchases", "failedPurchases",
      "scheduledGoods", "purchasedGoods", "saleCompleted">>

StatusResetStep ==
    /\ spc = "status_reset"
    /\ status' = [status EXCEPT ![ResetFields[resetIdx]] =
                     IF ResetFields[resetIdx] = "saleCompleted" THEN FALSE ELSE 0]
    /\ IF resetIdx < Len(ResetFields)
       THEN /\ resetIdx' = resetIdx + 1
            /\ UNCHANGED spc
       ELSE /\ resetIdx' = 0
            /\ spc' = "scan_users"
    /\ UNCHANGED <<kvVars, dbVars, hour, rt, shutdown, procVars, nextHour, finWin, finCount, scanned,
                   nextCode, ghostVars, nReq>>

\* The other key families: a key is its family's prefix and an identifier.
UserSetKey(u) == <<"reservations:user", u>>
ReservationKey(c) == <<"reservation", ToString(c)>>
GlobalKey == <<"reservations:global", "">>

\* The keys that exist in Redis.
AllKeys ==
    {ItemKey(i) : i \in DOMAIN itemRes}
    \cup {ReservationKey(c) : c \in DOMAIN reservation}
    \cup {UserSetKey(u) : u \in {v \in Users : userSet[v] # {}}}
    \cup (IF globalSet # {} THEN {GlobalKey} ELSE {})
    \cup {SoldKey(i) : i \in itemSold}
    \cup {PurchKey(u) : u \in {v \in Users : userPurchases[v] > 0}}

\* Mutant of ScanMatch: the pattern "*".
ScanMatchAll(prefix) == AllKeys

\* SCAN with the pattern "{prefix}:*": the keys that start with "{prefix}:".
\* No family's "{prefix}:" is the start of another family's, whatever the
\* identifier, so these are the keys of the family `prefix`.
ScanMatch(prefix) == {k \in AllKeys : k[1] = prefix}

\* ResetAllReservations: SCAN reservations:user:*, then reservation:*, then
\* item_reservation:*; each found key is queued for DEL.  A SCAN on a ctx
\* that is done returns its error, which finalizeSales logs.
ResetScan(here, next, prefix) ==
    /\ spc = here
    /\ IF SchedCtxDone
       THEN AwaitBoundary
       ELSE /\ scanned' = scanned \cup ScanMatch(prefix)
            /\ spc' = next
            /\ UNCHANGED <<nextHour, finWin, finCount, resetIdx>>
    /\ UNCHANGED <<kvVars, dbVars, status, hour, rt, shutdown, procVars, nextCode, ghostVars,
                   nReq>>

ResetScanUsers == ResetScan("scan_users", "scan_codes", "reservations:user")
ResetScanCodes == ResetScan("scan_codes", "scan_items", "reservation")
ResetScanItems == ResetScan("scan_items", "reset_exec", "item_reservation")

\* pipe.Exec: the queued DELs and DEL reservations:global; on a ctx that is
\* done it fails and no key is deleted.
ResetExec ==
    /\ spc = "reset_exec"
    /\ IF SchedCtxDone THEN UNCHANGED <<kvVars, dirty>> ELSE
       LET K == scanned \cup {GlobalKey} IN
       /\ userSet' = [u \in Users |-> IF UserSetKey(u) \in K THEN {} ELSE userSet[u]]
       /\ reservation' = Drop(reservation, {c \in DOMAIN reservation : ReservationKey(c) \in K})
       /\ itemRes' = Drop(itemRes, {i \in DOMAIN itemRes : ItemKey(i) \in K})
       /\ globalSet' = IF GlobalKey \in K THEN {} ELSE globalSet
       /\ itemSold' = {i \in itemSold : SoldKey(i) \notin K}
       /\ userPurchases' = [u \in Users |-> IF PurchKey(u) \in K THEN 0 ELSE userPurchases[u]]
       /\ dirty' = Touch(K \cap AllKeys)
    /\ AwaitBoundary
    /\ UNCHANGED <<dbVars, status, hour, rt, shutdown, pc, arg, attempt,
                   cancelled, txHour, result, nextCode, ghostVars, nReq>>

\* ----------------------------------------------------------- specification

\* The steps of a checkout after its arrival; D is the set of outcomes of
\* "the request's ctx is done" that the specification considers.
CheckoutStep(D) ==
    \/ \E p \in Procs, done \in D : CRWatch(p, done)
    \/ \E p \in Procs, done \in D : CRExec(p, done)
    \/ \E p \in Procs, dbOk \in BOOLEAN, done \in D : COSave(p, dbOk, done)
    \/ \E p \in Procs, done \in D : COCompDel(p, done)
    \/ \E p \in Procs, done \in D : COCompZRemGlobal(p, done)
    \/ \E p \in Procs, done \in D : COCompZRemUser(p, done)
    \/ \E p \in Procs : COInc1(p)
    \/ \E p \in Procs : COInc2(p)

\* The steps of a purchase after its arrival.
PurchaseStep(D) ==
    \/ \E p \in Procs, done \in D : PUDel(p, done)
    \/ \E p \in Procs, done \in D : PUZRemGlobal(p, done)
    \/ \E p \in Procs, done \in D : PUZRemUser(p, done)
    \/ \E p \in Procs, dbOk \in BOOLEAN, done \in D : PUBegin(p, dbOk, done)
    \/ \E p \in Procs, dbOk \in BOOLEAN, done \in D : PUCommit(p, dbOk, done)
    \/ \E p \in Procs, done \in D : PUMarkSold(p, done)
    \/ \E p \in Procs, done \in D : PUIncrCount(p, done)
    \/ \E p \in Procs : PUInc1(p)
    \/ \E p \in Procs : PUInc2(p)

\* A request arrives, while fewer than `budget` have.
Arrive(budget) ==
    /\ nReq.checkout + nReq.purchase < budget
    /\ \/ \E p \in Procs, u \in Users, i \in Items : StartCheckout(p, u, i)
       \/ \E p \in Procs, c \in issued \cup {NeverIssued} : StartPurchase(p, c)

\* The scheduler goroutine, from the timer to the end of finalizeSales.
\* cancel(), called on SIGINT or SIGTERM.
Shutdown ==
    /\ ~shutdown
    /\ shutdown' = TRUE
    /\ UNCHANGED <<kvVars, dbVars, status, hour, rt, procVars, spc, nextHour, finWin,
                   finCount, resetIdx, scanned, nextCode, ghostVars, nReq>>

\* case <-ctx.Done(): RunHourlyFinalization returns.  When the timer has
\* fired as well, select takes either case.
SchedStop ==
    /\ spc = "wait"
    /\ SchedCtxDone
    /\ spc' = "stopped"
    /\ UNCHANGED <<kvVars, dbVars, status, hour, rt, shutdown, procVars, nextHour, finWin,
                   finCount, resetIdx, scanned, nextCode, ghostVars, nReq>>

SchedulerStep ==
    \/ TimerFire
    \/ \E dbOk \in BOOLEAN : FinCount(dbOk)
    \/ \E dbOk \in BOOLEAN : FinApply(dbOk)
    \/ SetSaleCompleted
    \/ StatusResetStep
    \/ ResetScanUsers
    \/ ResetScanCodes
    \/ ResetScanItems
    \/ ResetExec

\* Spec: concurrent request handlers, ctx cancellation, Postgres errors and
\* TTL expiry, within one hour (the scheduler is waiting).
Next ==
    \/ Arrive(MaxRequests)
    \/ CheckoutStep(BOOLEAN)
    \/ PurchaseStep(BOOLEAN)
    \/ \E p \in Procs : Respond(p)
    \/ \E c \in Codes : Expire(c)

Spec == Init /\ [][Next]_vars

\* SpecSeq: as Spec, with one request handled at a time.
NextSeq ==
    \/ (\A q \in Procs : pc[q] = "idle") /\ Arrive(MaxSeqRequests)
    \/ CheckoutStep(BOOLEAN)
    \/ PurchaseStep(BOOLEAN)
    \/ \E p \in Procs : Respond(p)
    \/ \E c \in Codes : Expire(c)

SpecSeq == Init /\ [][NextSeq]_vars

\* SpecRetry: concurrent request handlers whose ctx stays alive, with one
\* more request than Spec, so that a CreateReservation can be aborted on
\* each of its attempts.
NextRetry ==
    \/ Arrive(MaxSeqRequests)
    \/ CheckoutStep({FALSE})
    \/ PurchaseStep({FALSE})
    \/ \E p \in Procs : Respond(p)
    \/ \E c \in Codes : Expire(c)

SpecRetry == Init /\ [][NextRetry]_vars

\* SpecFin: the wall clock and the scheduler, running concurrently with
\* request handlers that come one at a time and whose ctx stays alive.
NextFin ==
    \/ (\A q \in Procs : pc[q] = "idle") /\ Arrive(MaxSeqRequests)
    \/ CheckoutStep({FALSE})
    \/ PurchaseStep({FALSE})
    \/ \E p \in Procs : Respond(p)
    \/ Tick
    \/ SchedulerStep

SpecFin == Init /\ [][NextFin]_vars

\* SpecFlag: as SpecFin with one more request, so that a checkout can arrive
\* after the purchases that fill the inventory.  A request arrives, and
\* reads the flag, at any point of a finalization run; the Redis and
\* Postgres calls of a handler are taken while the scheduler waits.
NextFlag ==
    \/ (\A q \in Procs : pc[q] = "idle") /\ Arrive(MaxFlagRequests)
    \/ spc = "wait" /\ CheckoutStep({FALSE})
    \/ spc = "wait" /\ PurchaseStep({FALSE})
    \/ \E p \in Procs : Respond(p)
    \/ Tick
    \/ SchedulerStep

SpecFlag == Init /\ [][NextFlag]_vars

\* SpecStop: the scheduler with shutdown, next to a few requests.  The
\* scheduler goroutine is always scheduled again (weak fairness); nothing is
\* assumed of the clock or of the handlers.
NextStop ==
    \/ (\A q \in Procs : pc[q] = "idle") /\ Arrive(MaxStopRequests)
    \/ CheckoutStep({FALSE})
    \/ PurchaseStep({FALSE})
    \/ \E p \in Procs : Respond(p)
    \/ Tick
    \/ SchedulerStep
    \/ Shutdown
    \/ SchedStop

SpecStop == Init /\ [][NextStop]_vars /\ WF_vars(SchedulerStep \/ SchedStop)

\* SpecRefin: as SpecFin, and FinalizeSales may be called again on a
\* window that is already finalized.
NextRefin ==
    \/ (\A q \in Procs : pc[q] = "idle") /\ Arrive(MaxSeqRequests)
    \/ CheckoutStep({FALSE})
    \/ PurchaseStep({FALSE})
    \/ \E p \in Procs : Respond(p)
    \/ Tick
    \/ SchedulerStep
    \/ FinalizeAgain
    \/ \E dbOk \in BOOLEAN : ReFinCount(dbOk)
    \/ \E dbOk \in BOOLEAN : ReFinApply(dbOk)
    \/ ReFinReturn

SpecRefin == Init /\ [][NextRefin]_vars

\* ------------------------------------------ SpecCodec: one record, any ids

\* The characters identifiers are made of; the handlers accept any
\* non-empty user_id and id.
Chars == {"a", Sep}
Ids == UNION {[1..n -> Chars] : n \in 1..MaxIdLen}

InitCodec ==
    /\ InitProgram
    /\ \E u \in Ids, i \in Ids : rt = [RtOff EXCEPT !.pc = "checkout", !.user = u, !.item = i]

\* The SET reservation:{code} of a successful CreateReservation.
RTCreate ==
    /\ rt.pc = "checkout"
    /\ rt' = [rt EXCEPT !.pc = "stored", !.present = TRUE,
                        !.val = FormatReservation(rt.user, rt.item)]
    /\ UNCHANGED progVars

\* The record's TTL runs out.
RTExpire ==
    /\ rt.pc = "stored"
    /\ rt.present
    /\ rt' = [rt EXCEPT !.present = FALSE, !.val = <<>>]
    /\ UNCHANGED progVars

\* GetReservation(code): redis.Nil when the key is gone, else the parsed value.
RTGet ==
    /\ rt.pc = "stored"
    /\ rt' = [rt EXCEPT !.pc = "got",
                        !.out = IF rt.present THEN ParseReservation(rt.val)
                                ELSE [err |-> ErrReservationNotFound,
                                      user |-> <<>>, item |-> <<>>]]
    /\ UNCHANGED progVars

NextCodec == RTCreate \/ RTExpire \/ RTGet

SpecCodec == InitCodec /\ [][NextCodec]_vars

\* ------------------------------------------------------------------ claims

\* The reservation records of item i that have not expired.
LiveCodes(i) == {c \in DOMAIN reservation : ParseReservation(reservation[c]).item = Spell(i)}

\* Whether code c has left any key or set member in Redis.
InKV(c) ==
    \/ c \in DOMAIN reservation
    \/ \E i \in DOMAIN itemRes : itemRes[i] = c
    \/ c \in globalSet
    \/ \E u \in Users : c \in userSet[u]

\* C1: in every reachable state no item has two unexpired reservation
\* records (two codes whose item_id is that item).
C1_OneLiveReservationPerItem ==
    \A i \in Items : Cardinality(LiveCodes(i)) <= 1

\* C2: in every reachable state no item has both a sold marker and a live
\* reservation (an item lock or an unexpired reservation record).
C2_NoSoldAndReserved ==
    \A i \in itemSold : i \notin DOMAIN itemRes /\ LiveCodes(i) = {}

\* C3: for every code, at most one sales row is ever inserted by purchases
\* of that code, whatever the interleaving of the process_purchase calls.
C3_OneSalePerCode ==
    \A c \in Codes : salesInserted[c] <= 1

\* C4: for every user, in every reachable state, the per-user reservation
\* set has at most CONCURRENT_CAP members.
C4_UserSetWithinCap ==
    \A u \in Users : Cardinality(userSet[u]) <= CONCURRENT_CAP

\* C5: for every user, in every reachable state, the user purchase counter
\* is at most TOTAL_CAP.
C5_PurchasesWithinCap ==
    \A u \in Users : userPurchases[u] <= TOTAL_CAP

\* C6: in every reachable state the global reservation set has at most
\* INVENTORY_CAP members.
C6_GlobalSetWithinCap ==
    Cardinality(globalSet) <= INVENTORY_CAP

\* C7: a FinalizeSales run that commits is all-or-nothing over its window:
\* when the count it took equals INVENTORY_CAP every pending row of the
\* window becomes confirmed, otherwise every one is deleted; no row becomes
\* confirmed in a run whose count differs from INVENTORY_CAP; rows outside
\* the window are untouched; and the count returned is the count taken.
C7_FinalizeAllOrNothing ==
    [][(spc = "fin_apply" /\ spc' = "set_completed") =>
        LET W == {r \in sales : r.status = "pending" /\ r.purchased_at = finWin} IN
        /\ finCount' = finCount
        /\ \A r \in sales \ W : r \in sales'
        /\ \A r \in sales' : r.purchased_at = finWin => r.status # "pending"
        /\ IF finCount = INVENTORY_CAP
           THEN sales' = (sales \ W) \cup {[r EXCEPT !.status = "confirmed"] : r \in W}
           ELSE sales' = sales \ W
        /\ \A r \in sales' \ sales : r.status = "confirmed" /\ finCount = INVENTORY_CAP
      ]_vars

\* C7 witness: a run that counted INVENTORY_CAP rows has committed and its
\* rows are confirmed.
C7_Witness ==
    /\ spc = "set_completed"
    /\ finCount = INVENTORY_CAP
    /\ Cardinality({r \in sales : r.status = "confirmed" /\ r.purchased_at = finWin})
         >= INVENTORY_CAP

\* C8: once FinalizeSales has committed for a window, no state holds a
\* pending sales row whose purchased_at lies in that window.
C8_NoPendingInFinalizedWindow ==
    \A r \in sales : r.status = "pending" => r.purchased_at \notin finalized

\* C9: when a checkout returns "failed to save checkout attempt", nothing of
\* its code is left in Redis: no item lock, no reservation record, no set
\* member.
C9_CompensationLeavesNothing ==
    \A p \in Procs :
        (pc[p] = "done" /\ arg[p].kind = "checkout" /\ result[p] = ErrSaveCheckout)
            => ~InKV(arg[p].code)

\* The codes successful checkouts have returned.
ReturnedCodes ==
    issued \cup {arg[p].code : p \in {q \in Procs : pc[q] = "done" /\ result[q] = Ok
                                                    /\ arg[q].kind = "checkout"}}

\* C10: every code a successful checkout returned has a checkout_attempts
\* row, and the row has used = true exactly when a sales row was committed
\* by a purchase with that code.
C10_AttemptRowTracksPurchase ==
    \A c \in ReturnedCodes :
        /\ c \in DOMAIN attempts
        /\ attempts[c].used <=> salesInserted[c] > 0

\* C10 witness: a returned code was purchased and its row is marked used,
\* while another returned code was not purchased and its row is not.
C10_Witness ==
    /\ \E c \in issued : salesInserted[c] > 0 /\ attempts[c].used
    /\ \E c \in issued : salesInserted[c] = 0 /\ ~attempts[c].used

\* C11: a checkout that arrived after a purchase of its item was answered
\* with success never succeeds and, its own request still alive, fails with
\* "item has already been sold"; and no step removes a sold marker.
C11_SoldItemStaysSold ==
    /\ [](\A p \in Procs :
            (pc[p] = "done" /\ arg[p].kind = "checkout" /\ arg[p].afterSale)
                => /\ result[p] # Ok
                   /\ ~cancelled[p] => result[p] = ErrItemAlreadySold)
    /\ [][itemSold \subseteq itemSold']_vars

\* The reservation records user u holds that have not expired.
LiveOf(u) == {c \in DOMAIN reservation : ParseReservation(reservation[c]).user = Spell(u)}

\* C12: at the read checks of a checkout (its request alive) for item i by
\* user u: while another user holds a live reservation of i the checkout
\* fails with "item already reserved"; and when i has no lock, no live
\* record and no sold marker (its reservation expired without a purchase)
\* and u and the sale are within the caps, counting live reservations, the
\* checks pass.
C12_ReservedThenFree ==
    [][\A p \in Procs :
        (pc[p] = "cr_watch" /\ pc'[p] # "cr_watch" /\ ~cancelled'[p]) =>
            LET u == arg[p].user
                i == arg[p].item
            IN  /\ (\E c \in LiveCodes(i) : c \notin LiveOf(u))
                       => result'[p] = ErrItemReserved
                /\ (/\ LiveCodes(i) = {}
                    /\ i \notin DOMAIN itemRes
                    /\ i \notin itemSold
                    /\ Cardinality(DOMAIN reservation) < INVENTORY_CAP
                    /\ Cardinality(LiveOf(u)) < CONCURRENT_CAP
                    /\ userPurchases[u] < TOTAL_CAP)
                       => pc'[p] = "cr_exec"
      ]_vars

\* C13: a reservation record written for any non-empty user_id and item_id
\* (the separator "|" among their characters) reads back through
\* GetReservation as exactly that pair or as not found / expired, and as
\* nothing else.
C13_ReservationRoundTrip ==
    rt.pc = "got" =>
        \/ rt.out = [err |-> Ok, user |-> rt.user, item |-> rt.item]
        \/ rt.out.err = ErrReservationNotFound

\* C14: a call of FinalizeSales on a window that a committed call has
\* already finalized returns 0 and leaves every row of the sales table as it
\* was.
C14_FinalizeIdempotent ==
    [][(spc = "refin_apply" /\ spc' = "refin_done")
          => finCount' = 0 /\ sales' = sales]_vars

\* The positions of the scheduler inside Status.Reset and
\* ResetAllReservations.
ResetPcs == {"status_reset", "scan_users", "scan_codes", "scan_items", "reset_exec"}

\* C15: no step of Status.Reset or ResetAllReservations changes a sold
\* marker or a user purchase counter.
C15_ResetKeepsPermanentKeys ==
    [][(spc \in ResetPcs /\ (spc' # spc \/ resetIdx' # resetIdx))
          => itemSold' = itemSold /\ userPurchases' = userPurchases]_vars

\* C15 witness: both resets have run to their end in a store that holds a
\* sold marker and a purchase counter.
C15_Witness ==
    /\ spc = "wait"
    /\ finalized # {}
    /\ itemSold # {}
    /\ \E u \in Users : userPurchases[u] > 0

\* The errors that deny a request for a reason of the domain.
DomainDeny(kind) ==
    IF kind = "checkout"
    THEN {ErrItemReserved, ErrItemAlreadySold, ErrSaleSoldOut, ErrPurchaseLimitExceeded,
          ErrConcurrentReservationExceeded}
    ELSE {ErrReservationNotFound}

\* C16: a request that ends in a domain-deny error is answered with 400 and
\* the error's message, and one that ends in any other error with 500 and
\* "Internal server error".
C16_ErrorMapping ==
    \A p \in Procs :
        (pc[p] = "done" /\ result[p] # Ok) =>
            HandlerResponse(arg[p].kind, result[p]) =
                IF result[p] \in DomainDeny(arg[p].kind)
                THEN [status |-> 400, body |-> result[p]]
                ELSE [status |-> 500, body |-> "Internal server error"]

\* The requests of one kind that are being handled.
InFlight(kind) == {p \in Procs : pc[p] # "idle" /\ arg[p].kind = kind}

\* C17: every checkout request adds exactly 1 to exactly one of
\* successfulCheckouts / failedCheckouts, and every purchase request exactly
\* 1 to exactly one of successfulPurchases / failedPurchases (with no reset
\* in between, the two counters of a kind add up to the requests of that
\* kind once none is in flight, and no step adds more than 1 in all); a
\* purchase with a code that was never issued changes failedPurchases and
\* nothing else in the stores or the counters.
C17_OneCounterPerRequest ==
    /\ [](/\ InFlight("checkout") = {}
             => status.successfulCheckouts + status.failedCheckouts = nReq.checkout
          /\ InFlight("purchase") = {}
             => status.successfulPurchases + status.failedPurchases = nReq.purchase)
    /\ [][/\ (status'.successfulCheckouts + status'.failedCheckouts
              + status'.successfulPurchases + status'.failedPurchases)
             - (status.successfulCheckouts + status.failedCheckouts
                + status.successfulPurchases + status.failedPurchases) \in {0, 1}
          /\ \A p \in Procs :
               (pc'[p] # pc[p] /\ arg'[p].kind = "purchase" /\ arg'[p].code = NeverIssued)
                   => /\ UNCHANGED <<kvVars, dbVars>>
                      /\ pc'[p] = "done" /\ result'[p] = ErrReservationNotFound
                      /\ status' = status
          /\ \A p \in Procs :
               (pc[p] = "done" /\ pc'[p] = "idle" /\ arg[p].kind = "purchase"
                   /\ arg[p].code = NeverIssued)
                   => /\ UNCHANGED <<kvVars, dbVars>>
                      /\ status' = [status EXCEPT !.failedPurchases = @ + 1]
         ]_vars

\* C17 witness: a successful checkout, a successful purchase and a failed
\* purchase have been answered.
C17_Witness ==
    /\ \A p \in Procs : pc[p] = "idle"
    /\ status.successfulCheckouts > 0
    /\ status.successfulPurchases > 0
    /\ status.failedPurchases > 0

\* C18: the sales table never holds two rows, pending or confirmed, for
\* the same item.
C18_NoDoubleSale ==
    \A r1 \in sales, r2 \in sales : r1.item = r2.item => r1 = r2

\* The four keys of code c for user u and item i are all written.
AllWritten(u, i, c) ==
    /\ i \in DOMAIN itemRes /\ itemRes[i] = c
    /\ c \in globalSet
    /\ c \in userSet[u]
    /\ c \in DOMAIN reservation
    /\ reservation[c] = FormatReservation(Spell(u), Spell(i))

\* C19: while CreateReservation runs for a code, no other operation sees
\* any of the code's four entries; the step that ends it with success
\* writes all four at once and nothing else; and a step that ends it, or
\* one of its attempts, without success changes nothing in Redis.
C19_BatchIsAtomic ==
    /\ [](\A p \in Procs : pc[p] \in {"cr_watch", "cr_exec"} => ~InKV(arg[p].code))
    /\ [][\A p \in Procs :
            (pc[p] \in {"cr_watch", "cr_exec"} /\ pc'[p] # pc[p]) =>
                IF pc'[p] = "co_save"
                THEN /\ AllWritten(arg[p].user, arg[p].item, arg[p].code)'
                     /\ Drop(itemRes', {arg[p].item}) = Drop(itemRes, {arg[p].item})
                     /\ Drop(reservation', {arg[p].code}) = reservation
                     /\ globalSet' \ {arg[p].code} = globalSet
                     /\ \A u \in Users : userSet'[u] \ {arg[p].code} = userSet[u]
                     /\ UNCHANGED <<itemSold, userPurchases>>
                ELSE UNCHANGED kvVars
         ]_vars

\* C19 witness: one CreateReservation has just written its batch while
\* another has failed.
C19_Witness ==
    \E p \in Procs, q \in Procs :
        /\ pc[p] = "co_save"
        /\ AllWritten(arg[p].user, arg[p].item, arg[p].code)
        /\ pc[q] = "done" /\ arg[q].kind = "checkout"
        /\ result[q] \in {ErrItemReserved, ErrConflict, ErrCtx}

\* C20: CreateReservation makes at most three watched-transaction attempts
\* and is never blocked inside one; an attempt whose EXEC is aborted because
\* a watched key changed writes nothing and is followed by another attempt
\* if fewer than three were made, and by the error "item reservation failed
\* after retries" if it was the third; any other error ends the call on the
\* attempt where it occurs.
C20_ThreeAttempts ==
    /\ [](\A p \in Procs :
            /\ pc[p] \in {"cr_watch", "cr_exec"}
                 => /\ attempt[p] < 3
                    /\ ENABLED (CRWatch(p, cancelled[p]) \/ CRExec(p, cancelled[p]))
            /\ (pc[p] = "done" /\ result[p] = ErrConflict) => attempt[p] = 3)
    /\ [][\A p \in Procs :
            /\ (pc[p] = "cr_exec" /\ pc'[p] # pc[p] /\ dirty[p] /\ ~cancelled'[p])
                 => /\ attempt'[p] = attempt[p] + 1
                    /\ UNCHANGED kvVars
                    /\ IF attempt[p] + 1 < 3
                       THEN pc'[p] = "cr_watch"
                       ELSE pc'[p] = "done" /\ result'[p] = ErrConflict
            /\ (pc[p] \in {"cr_watch", "cr_exec"} /\ pc'[p] = "done"
                  /\ result'[p] # ErrConflict)
                 => attempt'[p] = attempt[p]
            /\ (pc[p] = "cr_exec" /\ pc'[p] # pc[p] /\ ~dirty[p] /\ ~cancelled'[p])
                 => pc'[p] = "co_save" /\ attempt'[p] = attempt[p]
         ]_vars

\* C20 witness: a CreateReservation has failed after its third aborted
\* attempt.
C20_Witness ==
    \E p \in Procs : pc[p] = "done" /\ result[p] = ErrConflict /\ attempt[p] = 3

\* C21: every member of reservations:global and of each
\* reservations:user:{user} is the code of a live reservation (of that
\* user): an ended reservation is in neither set.
C21_SetMembersAreLive ==
    /\ globalSet \subseteq DOMAIN reservation
    /\ \A u \in Users : userSet[u] \subseteq LiveOf(u)

\* C22: when pgRepo.ProcessPurchase fails, ProcessPurchase returns "failed
\* to process purchase in db"; the failing call inserts no sales row, leaves
\* the checkout attempt, the sold markers, the purchase counters and the
\* status counters as they were and does not write the reservation back;
\* the code no longer resolves; and the handler then adds 1 to
\* failedPurchases and changes nothing else.
C22_DbFailureLeavesNoSale ==
    /\ [](\A p \in Procs :
            (pc[p] = "done" /\ arg[p].kind = "purchase" /\ result[p] = ErrPurchaseDb)
                => arg[p].code \notin DOMAIN reservation)
    /\ [][\A p \in Procs :
            /\ (pc[p] \in {"pu_begin", "pu_commit"} /\ pc'[p] = "done")
                 => /\ result'[p] = ErrPurchaseDb
                    /\ UNCHANGED <<kvVars, dbVars, status, salesInserted>>
            /\ (pc[p] = "done" /\ pc'[p] = "idle" /\ result[p] = ErrPurchaseDb)
                 => /\ UNCHANGED <<kvVars, dbVars, salesInserted>>
                    /\ status' = [status EXCEPT !.failedPurchases = @ + 1]
         ]_vars

\* C22 witness: a purchase has failed in the database after its
\* reservation was deleted.
C22_Witness ==
    \E p \in Procs :
        /\ pc[p] = "done" /\ arg[p].kind = "purchase" /\ result[p] = ErrPurchaseDb
        /\ arg[p].code \in issued

AfterCommit == {"pu_sold", "pu_incr", "pu_inc1", "pu_inc2"}

\* C23: after GetReservation and DeleteReservation succeeded, a purchase
\* answers success exactly when its database transaction committed: a call
\* that ends before the commit ends with the database error, a call past the
\* commit can only go on to success, whether or not MarkItemAsSold and
\* IncrementUserPurchaseCount took effect, no step after the commit touches
\* the sales or checkout_attempts rows, and the success carries the user and
\* item of the checkout that issued the code.
C23_SuccessIffCommitted ==
    /\ [](\A p \in Procs :
            (pc[p] = "done" /\ arg[p].kind = "purchase" /\ result[p] = Ok)
                => /\ salesInserted[arg[p].code] >= 1
                   /\ arg[p].code \in DOMAIN attempts
                        => /\ attempts[arg[p].code].user = arg[p].user
                           /\ attempts[arg[p].code].item = arg[p].item
                           /\ attempts[arg[p].code].used)
    /\ [][\A p \in Procs :
            /\ (pc[p] \in {"pu_begin", "pu_commit"} /\ pc'[p] = "done")
                 => result'[p] # Ok
            /\ (pc[p] = "pu_commit" /\ pc'[p] # pc[p] /\ pc'[p] # "done")
                 => /\ pc'[p] = "pu_sold"
                    /\ salesInserted'[arg[p].code] = salesInserted[arg[p].code] + 1
            /\ (pc[p] \in AfterCommit /\ pc'[p] # pc[p])
                 => /\ pc'[p] \in AfterCommit \cup {"done"}
                    /\ pc'[p] = "done" => result'[p] = Ok
                    /\ arg'[p] = arg[p]
                    /\ UNCHANGED <<dbVars, salesInserted>>
         ]_vars

\* C23 witness: a purchase has answered success although neither the sold
\* marker nor the purchase counter was written.
C23_Witness ==
    \E p \in Procs :
        /\ pc[p] = "done" /\ arg[p].kind = "purchase" /\ result[p] = Ok
        /\ arg[p].item \notin itemSold
        /\ userPurchases[arg[p].user] = 0

\* The parts of the reservation of code c that are in the K/V store.
PartsOf(c) ==
    (IF c \in DOMAIN reservation THEN {"record"} ELSE {})
    \cup (IF \E i \in DOMAIN itemRes : itemRes[i] = c THEN {"lock"} ELSE {})
    \cup (IF c \in globalSet THEN {"global"} ELSE {})
    \cup (IF \E u \in Users : c \in userSet[u] THEN {"user"} ELSE {})

\* C24: when the scheduler waits for a boundary and no handler is running,
\* every code has its item lock, its record, its global-set entry and its
\* user-set entry, or none of them.
C24_NoPartialReservation ==
    (spc = "wait" /\ \A p \in Procs : pc[p] = "idle")
        => \A c \in Codes : PartsOf(c) \in {{}, {"record", "lock", "global", "user"}}

\* C25: every pending sale row is eventually confirmed or deleted.  Each
\* run of FinalizeSales handles the hour before the one it runs in and the
\* next run comes no earlier than nextHour, so a pending row can still be
\* transitioned only if its hour is not before the window of the next run:
\* while the scheduler waits for a boundary that is still ahead, no pending
\* row is older than the current hour.
C25_NoStrandedRow ==
    (spc = "wait" /\ nextHour > hour)
        => \A r \in sales : r.status = "pending" => r.purchased_at >= hour

\* The step that follows each step of a finalization run.
RunOrder ==
    [fin_count |-> "fin_apply", fin_apply |-> "set_completed",
     set_completed |-> "status_reset", status_reset |-> "scan_users",
     scan_users |-> "scan_codes", scan_codes |-> "scan_items",
     scan_items |-> "reset_exec", reset_exec |-> "wait"]

\* C26: a run started by the timer goes through FinalizeSales, sets
\* saleCompleted to (count = INVENTORY_CAP), then runs Status.Reset, then
\* ResetAllReservations, and only then goes back to waiting.
C26_RunSequence ==
    [][(spc \in DOMAIN RunOrder /\ spc' # spc)
          => /\ spc' = RunOrder[spc]
             /\ spc = "set_completed"
                  => status'.saleCompleted = (finCount = INVENTORY_CAP)
      ]_vars

\* C27: while the scheduler waits for a boundary saleCompleted is false,
\* and a checkout is refused by the IsSaleCompleted test (before any Redis
\* call) only while the scheduler is between SetSaleCompleted(true) and the
\* last store of Status.Reset.
C27_FlagFalseWhileWaiting ==
    /\ [](spc = "wait" => ~status.saleCompleted)
    /\ [][\A p \in Procs :
            (pc[p] = "idle" /\ pc'[p] = "done" /\ result'[p] = ErrSaleSoldOut)
                => spc = "status_reset" /\ finCount = INVENTORY_CAP
         ]_vars

\* C27 witness: the run that confirmed a full window is over, the scheduler
\* waits, and a checkout that arrived during the run was refused by the
\* flag.
C27_Witness ==
    /\ spc = "wait"
    /\ \E r \in sales : r.status = "confirmed"
    /\ \E p \in Procs :
          /\ pc[p] = "done" /\ result[p] = ErrSaleSoldOut
          /\ arg[p].code = NeverIssued

\* The steps of a run that pass the scheduler's ctx to Postgres or Redis.
CtxSteps == {"fin_count", "fin_apply", "scan_users", "scan_codes", "scan_items", "reset_exec"}

C29_CountersPairUp ==
    (spc = "wait" /\ \A p \in Procs : pc[p] = "idle")
        => /\ status.successfulCheckouts = status.scheduledGoods
           /\ status.successfulPurchases = status.purchasedGoods
====
